---------------------------- MODULE Spec2Model ----------------------------
(***************************************************************************)
(* A model of waterbutler's path type (waterbutler/core/utils.py,          *)
(* WaterButlerPath) and of the read-only Dryad provider built on it        *)
(* (waterbutler/providers/dryad/provider.py, DryadProvider).               *)
(*                                                                         *)
(* A Python str is a sequence of one-character strings.  A caller drives   *)
(* one operation at a time: from "idle" it starts an operation with its    *)
(* arguments, the operation suspends at each outbound request (one step    *)
(* per response), ends in "done" with what it returned or raised, and the  *)
(* caller takes the result and is idle again.                              *)
(*                                                                         *)
(* DryadProvider imports its path type from waterbutler.core.path; the     *)
(* path type modelled is the one of core/utils.py, which validates and     *)
(* splits a string the same way, and parts[i].value is read as the i-th    *)
(* part's string.  The URL of a request does not decide what the provider  *)
(* does with the response, which is any of Statuses, and is left out.      *)
(***************************************************************************)
EXTENDS Naturals, Sequences, FiniteSets

\* ------------------------------------------------------------- bounds
\* Longest raw path string handed to a constructor or a validation.
MaxLen == 6
\* Longest path string of the Path objects handed to the network operations.
MaxArgLen == 4
\* Most children a package's metadata lists.
MaxChildren == 2
\* An operation starts only while the stubbed transport has counted fewer calls.
MaxCalls == 2

Alphabet == {"/", ".", "a"}

Strings(n) == UNION {[1..k -> Alphabet] : k \in 0..n}

\* ------------------------------------------------------ Python str methods
\* s.startswith(p)
startswith(s, p) == Len(s) >= Len(p) /\ SubSeq(s, 1, Len(p)) = p

\* s.endswith(p)
endswith(s, p) == Len(s) >= Len(p) /\ SubSeq(s, Len(s) - Len(p) + 1, Len(s)) = p

\* p in s
contains(s, p) == \E i \in 1..Len(s) : startswith(SubSeq(s, i, Len(s)), p)

\* s.rstrip('/')
RECURSIVE rstrip(_)
rstrip(s) ==
    IF s # <<>> /\ s[Len(s)] = "/" THEN rstrip(SubSeq(s, 1, Len(s) - 1)) ELSE s

\* s.lstrip('/')
RECURSIVE lstrip(_)
lstrip(s) == IF s # <<>> /\ s[1] = "/" THEN lstrip(Tail(s)) ELSE s

\* s.split('/'): always at least one element, ''.split('/') = ['']
RECURSIVE split(_)
split(s) ==
    IF ~ \E i \in 1..Len(s) : s[i] = "/"
    THEN <<s>>
    ELSE LET i == CHOOSE j \in 1..Len(s) :
                      s[j] = "/" /\ \A k \in 1..(j - 1) : s[k] # "/"
         IN  <<SubSeq(s, 1, i - 1)>> \o split(SubSeq(s, i + 1, Len(s)))

\* '/'.join(parts)
RECURSIVE join(_)
join(parts) ==
    IF parts = <<>> THEN <<>>
    ELSE IF Len(parts) = 1 THEN parts[1]
    ELSE parts[1] \o <<"/">> \o join(Tail(parts))

\* ------------------------------------------------------------ os.path
\* The working directory of the process, read by abspath for a relative path.
getcwd == <<"/">>

\* posixpath.join(a, b)
os_path_join(a, b) ==
    IF startswith(b, <<"/">>) THEN b
    ELSE IF a = <<>> \/ endswith(a, <<"/">>) THEN a \o b
    ELSE a \o <<"/">> \o b

\* The loop of posixpath.normpath over the components.
RECURSIVE normcomps(_, _, _)
normcomps(comps, new_comps, initial_slashes) ==
    IF comps = <<>> THEN new_comps
    ELSE LET comp == Head(comps)
             nxt  ==
                IF comp = <<>> \/ comp = <<".">> THEN new_comps
                ELSE IF \/ comp # <<".", ".">>
                        \/ (initial_slashes = 0 /\ new_comps = <<>>)
                        \/ (new_comps # <<>> /\ new_comps[Len(new_comps)] = <<".", ".">>)
                     THEN Append(new_comps, comp)
                     ELSE IF new_comps # <<>>
                          THEN SubSeq(new_comps, 1, Len(new_comps) - 1)
                          ELSE new_comps
         IN  normcomps(Tail(comps), nxt, initial_slashes)

\* posixpath.normpath(path)
normpath(path) ==
    IF path = <<>> THEN <<".">>
    ELSE LET initial_slashes ==
                 IF ~ startswith(path, <<"/">>) THEN 0
                 ELSE IF startswith(path, <<"/", "/">>)
                         /\ ~ startswith(path, <<"/", "/", "/">>)
                      THEN 2 ELSE 1
             body == join(normcomps(split(path), <<>>, initial_slashes))
             res  == IF initial_slashes = 2 THEN <<"/", "/">> \o body
                     ELSE IF initial_slashes = 1 THEN <<"/">> \o body
                     ELSE body
         IN  IF res = <<>> THEN <<".">> ELSE res

\* posixpath.abspath(path)
abspath(path) ==
    IF startswith(path, <<"/">>) THEN normpath(path)
    ELSE normpath(os_path_join(getcwd, path))

\* ------------------------------------------------------ WaterButlerPath
\* What a call that raised carries: the exception's type and message.
EmptyPathValueError   == "ValueError: Must specify path"
InvalidPathValueError == "ValueError: Invalid path specified"

\* The tail of _validate_path: the canonical form against the literal input.
canonical(path) ==
    LET absolute_path == abspath(path)
    IN  IF path # <<"/">> /\ endswith(path, <<"/">>)
        THEN absolute_path \o <<"/">>
        ELSE absolute_path

\* _validate_path with the '//' test left out.
_validate_path_no_double(path) ==
    IF path = <<>> THEN EmptyPathValueError
    ELSE IF ~ startswith(path, <<"/">>) THEN InvalidPathValueError
    ELSE IF path # canonical(path) THEN InvalidPathValueError
    ELSE "ok"

\* WaterButlerPath._validate_path: "ok", or the ValueError it raises.
_validate_path(path) ==
    IF path = <<>> THEN EmptyPathValueError
    ELSE IF ~ startswith(path, <<"/">>) THEN InvalidPathValueError
    ELSE IF contains(path, <<"/", "/">>) THEN InvalidPathValueError
    ELSE IF path # canonical(path) THEN InvalidPathValueError
    ELSE "ok"

\* _format_path that strips the trailing separator whatever the suffix option.
_format_path_strip(path, prefix, suffix) ==
    LET p1 == IF ~ prefix THEN lstrip(path) ELSE path
    IN  IF p1 # <<>> /\ p1 # <<"/">> THEN rstrip(p1) ELSE p1

\* WaterButlerPath._format_path
_format_path(path, prefix, suffix) ==
    LET p1 == IF ~ prefix THEN lstrip(path) ELSE path
    IN  IF p1 # <<>> /\ p1 # <<"/">>
        THEN IF ~ suffix THEN rstrip(p1) ELSE p1
        ELSE p1

\* The fields of an instance, as __init__ sets them.
NewPath(path, prefix, suffix) ==
    [orig_path |-> path,
     parts     |-> split(rstrip(path)),
     is_dir    |-> endswith(path, <<"/">>),
     is_root   |-> path = <<"/">>,
     prefix    |-> prefix,
     suffix    |-> suffix,
     path      |-> _format_path(path, prefix, suffix)]

\* No instance: the value of a slot that holds no Path.
NoPath ==
    [orig_path |-> <<>>, parts |-> <<>>, is_dir |-> FALSE, is_root |-> FALSE,
     prefix |-> TRUE, suffix |-> TRUE, path |-> <<>>]

\* What a call ends with: a returned value or a raised exception.
Returned(p, b, n) == [kind |-> "return", exc |-> "", path |-> p, bool |-> b, n |-> n]
Raised(e)         == [kind |-> "raise", exc |-> e, path |-> NoPath, bool |-> FALSE, n |-> 0]
NoResult          == [kind |-> "none", exc |-> "", path |-> NoPath, bool |-> FALSE, n |-> 0]

\* WaterButlerPath(path, prefix, suffix): the instance, or the ValueError.
WaterButlerPath(path, prefix, suffix) ==
    IF _validate_path(path) # "ok"
    THEN Raised(_validate_path(path))
    ELSE Returned(NewPath(path, prefix, suffix), FALSE, 0)

\* The accessors.
is_file(p) == ~ p.is_dir
name(p)    == p.parts[Len(p.parts)]

\* parent that drops the formatting options (the constructor's defaults).
parent_defaults(p) ==
    WaterButlerPath(join(SubSeq(p.parts, 1, Len(p.parts) - 1)) \o <<"/">>, TRUE, TRUE)

\* WaterButlerPath.parent
parent(p) ==
    WaterButlerPath(join(SubSeq(p.parts, 1, Len(p.parts) - 1)) \o <<"/">>,
                    p.prefix, p.suffix)

\* The instances a caller can hold: built from the valid strings.
ValidStrings(n) == {s \in Strings(n) : _validate_path(s) = "ok"}
ValidPaths(n) ==
    {NewPath(s, pre, suf) : s \in ValidStrings(n), pre \in BOOLEAN, suf \in BOOLEAN}


\* ------------------------------------------------------- DryadProvider
\* The response statuses the stubbed transport can answer with.
Statuses == {200, 206, 404, 500}

\* The file names a Content-Disposition header can carry.
FileNames == {<<"a">>, <<"a", "a">>}

\* The providers a copy can be sent to: another Dryad, or a writable backend.
Providers == {"dryad", "other"}

\* How a caller passes the path to upload and delete: upload(stream, path) as
\* _do_intra_move_or_copy does, or upload(stream, path=path).
Shapes == {"positional", "keyword"}

\* BaseProvider.make_request: the response is handed back when its status is
\* one of `expects`, and `throws` is raised otherwise.
make_request_ok(st, expects) == st \in expects

\* DryadProvider.validate_path
validate_path(path) ==
    LET w == WaterButlerPath(path, TRUE, TRUE)
    IN  IF w.kind = "raise" THEN w
        ELSE IF w.path.is_root THEN w
        ELSE IF Len(w.path.parts) = 2 /\ ~ w.path.is_dir
             THEN Raised("NotFoundError")
        ELSE IF Len(w.path.parts) = 3 /\ ~ is_file(w.path)
             THEN Raised("NotFoundError")
        ELSE w

\* The end of validate_v1_path with the 404 test left out.
validate_v1_response_no404(wbpath, st) ==
    IF ~ make_request_ok(st, {200, 404}) THEN Raised("MetadataError")
    ELSE Returned(wbpath, FALSE, 0)

\* validate_v1_path once the lookup is answered.
validate_v1_response(wbpath, st) ==
    IF ~ make_request_ok(st, {200, 404}) THEN Raised("MetadataError")
    ELSE IF st = 404 THEN Raised("NotFoundError")
    ELSE Returned(wbpath, FALSE, 0)

\* upload(self, stream, **kwargs) and delete(self, **kwargs): a path passed
\* by position does not bind, and the call raises before the body runs.
read_only_call(sh) ==
    IF sh = "positional" THEN Raised("TypeError")
    ELSE Raised("ReadOnlyProviderError")

\* DryadProvider.can_intra_move
can_intra_move == Raised("ReadOnlyProviderError")

\* DryadProvider.can_intra_copy
can_intra_copy == Returned(NoPath, TRUE, 0)

\* WaterButlerPath.rename of waterbutler.core.path: the last part is replaced
\* in place.
rename(p, new_name) == [p EXCEPT !.parts[Len(p.parts)] = new_name]

\* The upload of a writable destination provider, once answered.
other_upload_response(st) ==
    IF st \in {200, 206} THEN Returned(NoPath, FALSE, 1) ELSE Raised("UploadError")

\* ---------------------------------------------------------------- state
VARIABLES
    pc,             \* where the caller's current operation stands
    op,             \* the operation
    raw,            \* its raw path string
    src_path,       \* the Path instance it is given (fields of the object)
    dest_path,      \* intra_copy's destination Path instance
    before,         \* <<src_path, dest_path>> as they were when it started
    dest_provider,  \* intra_copy's destination provider
    shape,          \* how upload/delete were handed their path
    uploaded,       \* the Path handed on to dest_provider.upload
    result,         \* what the operation returned or raised
    calls,          \* make_request calls the transport has counted
    calls0,         \* calls when the operation started
    status,         \* the status of the last response
    remaining,      \* children of the package still to fetch
    children        \* children fetched

vars == <<pc, op, raw, src_path, dest_path, before, dest_provider, shape,
          uploaded, result, calls, calls0, status, remaining, children>>

Init ==
    /\ pc = "idle" /\ op = "none" /\ raw = <<>>
    /\ src_path = NoPath /\ dest_path = NoPath /\ before = <<NoPath, NoPath>>
    /\ dest_provider = "none" /\ shape = "none" /\ uploaded = NoPath
    /\ result = NoResult
    /\ calls = 0 /\ calls0 = 0 /\ status = 0 /\ remaining = 0 /\ children = 0

\* The caller is free to start an operation.
Idle == pc = "idle" /\ calls < MaxCalls

\* The caller starts operation o with these arguments.
Begin(o, r, s, d, dp, sh) ==
    /\ Idle
    /\ op' = o /\ raw' = r /\ src_path' = s /\ dest_path' = d
    /\ before' = <<s, d>> /\ dest_provider' = dp /\ shape' = sh
    /\ uploaded' = NoPath /\ calls0' = calls /\ status' = 0
    /\ remaining' = 0 /\ children' = 0

\* The operation ends with res and no request.
End(res) == pc' = "done" /\ result' = res /\ calls' = calls

\* The operation issues a request and suspends at position p.
Request(p) == pc' = p /\ result' = NoResult /\ calls' = calls + 1

ProviderPaths == {NewPath(s, TRUE, TRUE) : s \in ValidStrings(MaxArgLen)}

\* ------------------------------------------------- WaterButlerPath calls
Construct(path, prefix, suffix) ==
    /\ Begin("WaterButlerPath", path, NoPath, NoPath, "none", "none")
    /\ End(WaterButlerPath(path, prefix, suffix))

Parent(p) ==
    /\ Begin("parent", <<>>, p, NoPath, "none", "none")
    /\ End(parent(p))

\* A Path is built again from the formatted string of p.
Reparse(p) ==
    /\ Begin("reparse", p.path, p, NoPath, "none", "none")
    /\ End(WaterButlerPath(p.path, TRUE, TRUE))

\* --------------------------------------------------- DryadProvider calls
ValidatePath(path) ==
    /\ Begin("validate_path", path, NoPath, NoPath, "none", "none")
    /\ End(validate_path(path))

ValidateV1Path(path) ==
    /\ Begin("validate_v1_path", path, NoPath, NoPath, "none", "none")
    /\ LET w == validate_path(path)
       IN  IF w.kind = "raise" \/ w.path.is_root
           THEN End(w)
           ELSE Request("lookup")

LookupResponse(st) ==
    /\ pc = "lookup"
    /\ pc' = "done" /\ status' = st
    /\ result' = validate_v1_response(validate_path(raw).path, st)
    /\ UNCHANGED <<op, raw, src_path, dest_path, before, dest_provider, shape,
                   uploaded, calls, calls0, remaining, children>>

Upload(sh) ==
    /\ Begin("upload", <<>>, NoPath, NoPath, "none", sh)
    /\ End(read_only_call(sh))

Delete(sh) ==
    /\ Begin("delete", <<>>, NoPath, NoPath, "none", sh)
    /\ End(read_only_call(sh))

CanIntraMove(other, p) ==
    /\ Begin("can_intra_move", <<>>, p, NoPath, other, "none")
    /\ End(can_intra_move)

CanIntraCopy(other, p) ==
    /\ Begin("can_intra_copy", <<>>, p, NoPath, other, "none")
    /\ End(can_intra_copy)

\* metadata(path): _package_metadata's request goes out first.
Metadata(p) ==
    /\ Begin("metadata", <<>>, p, NoPath, "none", "none")
    /\ Request("pkg")

\* download(path): the bitstream request goes out first.
Download(p) ==
    /\ Begin("download", <<>>, p, NoPath, "none", "none")
    /\ Request("bitstream")

\* intra_copy(dest_provider, src_path, dest_path), which the caller invokes
\* when can_intra_copy answered True: _do_intra_move_or_copy's bitstream
\* request goes out first.
IntraCopy(dp, s, d) ==
    /\ can_intra_copy.bool
    /\ Begin("intra_copy", <<>>, s, d, dp, "none")
    /\ Request("bitstream")

Frame == UNCHANGED <<op, raw, src_path, before, dest_provider, shape, calls0>>

\* _package_metadata's response, and metadata's dispatch on the path.
PackageResponse(st, n) ==
    /\ pc = "pkg" /\ status' = st /\ Frame
    /\ UNCHANGED <<dest_path, uploaded, children>>
    /\ IF ~ make_request_ok(st, {200, 206})
       THEN End(Raised("MetadataError")) /\ remaining' = 0
       ELSE IF src_path.orig_path = <<"/">>
       THEN End(Returned(NoPath, FALSE, 1)) /\ remaining' = 0
       ELSE IF ~ src_path.is_dir
       THEN Request("fm1") /\ remaining' = 0
       ELSE IF n = 0
       THEN End(Returned(NoPath, FALSE, 0)) /\ remaining' = 0
       ELSE Request("fm1") /\ remaining' = n

\* The first request of download and of _do_intra_move_or_copy answered.
BitstreamResponse(st) ==
    /\ pc = "bitstream" /\ status' = st /\ Frame
    /\ UNCHANGED <<dest_path, uploaded, remaining, children>>
    /\ IF ~ make_request_ok(st, {200, 206})
       THEN End(Raised("DownloadError"))
       ELSE Request("fm1")

\* _file_metadata's first and second requests answered.
FileMetadataResponse1(st) ==
    /\ pc = "fm1" /\ status' = st /\ Frame
    /\ UNCHANGED <<dest_path, uploaded, remaining, children>>
    /\ IF ~ make_request_ok(st, {200, 206})
       THEN End(Raised("MetadataError"))
       ELSE Request("fm2")

FileMetadataResponse2(st) ==
    /\ pc = "fm2" /\ status' = st /\ Frame
    /\ UNCHANGED <<dest_path, uploaded, remaining, children>>
    /\ IF ~ make_request_ok(st, {200, 206})
       THEN End(Raised("MetadataError"))
       ELSE Request("fm3")

\* _file_metadata's third request answered: the file name is read from the
\* Content-Disposition header, and the caller of _file_metadata goes on.
FileMetadataResponse3(st, has_filename, file_name) ==
    /\ pc = "fm3" /\ status' = st /\ Frame
    /\ IF ~ make_request_ok(st, {200, 206})
       THEN /\ End(Raised("DownloadError"))
            /\ UNCHANGED <<dest_path, uploaded, remaining, children>>
       ELSE IF ~ has_filename
       THEN /\ End(Raised("KeyError"))
            /\ UNCHANGED <<dest_path, uploaded, remaining, children>>
       ELSE IF op = "metadata" /\ remaining = 0
       THEN /\ End(Returned(NoPath, FALSE, 1))
            /\ UNCHANGED <<dest_path, uploaded, remaining, children>>
       ELSE IF op = "metadata" /\ remaining = 1
       THEN /\ End(Returned(NoPath, FALSE, children + 1))
            /\ remaining' = 0 /\ children' = children + 1
            /\ UNCHANGED <<dest_path, uploaded>>
       ELSE IF op = "metadata"
       THEN /\ Request("fm1")
            /\ remaining' = remaining - 1 /\ children' = children + 1
            /\ UNCHANGED <<dest_path, uploaded>>
       ELSE IF op = "download"
       THEN /\ End(Returned(NoPath, FALSE, 1))
            /\ UNCHANGED <<dest_path, uploaded, remaining, children>>
       ELSE /\ dest_path' = rename(dest_path, file_name)
            /\ uploaded' = dest_path'
            /\ UNCHANGED <<remaining, children>>
            /\ IF dest_provider = "dryad"
               THEN End(read_only_call("positional"))
               ELSE Request("upload")

\* The writable destination's upload answered.
UploadResponse(st) ==
    /\ pc = "upload" /\ status' = st /\ Frame
    /\ UNCHANGED <<dest_path, uploaded, remaining, children>>
    /\ End(other_upload_response(st))

\* The caller takes the result; the transport keeps its count.
Finish ==
    /\ pc = "done"
    /\ pc' = "idle" /\ op' = "none" /\ raw' = <<>>
    /\ src_path' = NoPath /\ dest_path' = NoPath /\ before' = <<NoPath, NoPath>>
    /\ dest_provider' = "none" /\ shape' = "none" /\ uploaded' = NoPath
    /\ result' = NoResult /\ calls0' = calls /\ status' = 0
    /\ remaining' = 0 /\ children' = 0
    /\ UNCHANGED calls

Next ==
    \/ Idle /\ \E path \in Strings(MaxLen), prefix \in BOOLEAN, suffix \in BOOLEAN :
          Construct(path, prefix, suffix)
    \/ Idle /\ \E p \in ValidPaths(MaxArgLen) : Parent(p)
    \/ Idle /\ \E p \in ValidPaths(MaxArgLen) : Reparse(p)
    \/ Idle /\ \E path \in Strings(MaxLen) : ValidatePath(path)
    \/ Idle /\ \E path \in Strings(MaxLen) : ValidateV1Path(path)
    \/ pc = "lookup" /\ \E st \in Statuses : LookupResponse(st)
    \/ Idle /\ \E sh \in Shapes : Upload(sh)
    \/ Idle /\ \E sh \in Shapes : Delete(sh)
    \/ Idle /\ \E other \in Providers, p \in ProviderPaths : CanIntraMove(other, p)
    \/ Idle /\ \E other \in Providers, p \in ProviderPaths : CanIntraCopy(other, p)
    \/ Idle /\ \E p \in ProviderPaths : Metadata(p)
    \/ Idle /\ \E p \in ProviderPaths : Download(p)
    \/ Idle /\ \E dp \in Providers, s \in ProviderPaths, d \in ProviderPaths :
          IntraCopy(dp, s, d)
    \/ \E st \in Statuses, n \in 0..MaxChildren : PackageResponse(st, n)
    \/ \E st \in Statuses : BitstreamResponse(st)
    \/ \E st \in Statuses : FileMetadataResponse1(st)
    \/ \E st \in Statuses : FileMetadataResponse2(st)
    \/ \E st \in Statuses, has_filename \in BOOLEAN, file_name \in FileNames :
          FileMetadataResponse3(st, has_filename, file_name)
    \/ \E st \in Statuses : UploadResponse(st)
    \/ Finish

Spec == Init /\ [][Next]_vars


\* =============================================================== claims
\* The error kind of the taxonomy an exception stands for: the path type
\* raises ValueError, told apart by its message.
ErrorKind(exc) ==
    IF exc = EmptyPathValueError THEN "EmptyPathError"
    ELSE IF exc = InvalidPathValueError THEN "InvalidPathError"
    ELSE exc

\* The segments of a Path: its parts after the leading root element.
segments(p) == Tail(p.parts)

Done(o) == pc = "done" /\ op = o

\* A string the path rules reject: no leading '/', a '//', or a canonical
\* form that differs from the literal input.
Rejectable(path) ==
    \/ ~ startswith(path, <<"/">>)
    \/ contains(path, <<"/", "/">>)
    \/ canonical(path) # path

\* C1 as stated: every string that does not start with '/', or contains '//',
\* or differs from its canonical form, fails with InvalidPathError and yields
\* no Path.
C1_Original ==
    (Done("WaterButlerPath") /\ Rejectable(raw)) =>
        (result.kind = "raise" /\ ErrorKind(result.exc) = "InvalidPathError")

\* C1 (amended): every such string yields no Path; it fails with
\* InvalidPathError when it is not empty, and the empty string fails with
\* EmptyPathError.
C1_RejectedStringsFail ==
    (Done("WaterButlerPath") /\ Rejectable(raw)) =>
        /\ result.kind = "raise"
        /\ ErrorKind(result.exc) =
              IF raw = <<>> THEN "EmptyPathError" ELSE "InvalidPathError"

C1_Witness ==
    /\ Done("WaterButlerPath") /\ raw = <<"/", "/", "a">>
    /\ result.kind = "raise"

\* C2 as stated: upload, delete and the move-as-source query of the read-only
\* provider always fail with ReadOnlyProviderError, and the transport's call
\* count is what it was before the call.
C2_ReadOnlyAlwaysFails ==
    (pc = "done" /\ op \in {"upload", "delete", "can_intra_move"}) =>
        /\ result.kind = "raise"
        /\ result.exc = "ReadOnlyProviderError"
        /\ calls = calls0

\* C3: validate_v1_path on a path validate_path accepts ends in one outcome:
\* root is returned with no request; otherwise one lookup is made, a 404
\* ends in NotFoundError and a 200 returns the Path whose string form is the
\* input.
C3_ValidateExistingOutcome ==
    (Done("validate_v1_path") /\ validate_path(raw).kind = "return") =>
        /\ result.kind \in {"return", "raise"}
        /\ IF raw = <<"/">>
           THEN /\ result.kind = "return" /\ result.path.is_root
                /\ calls = calls0
           ELSE /\ calls = calls0 + 1
                /\ status = 404 =>
                      (result.kind = "raise" /\ result.exc = "NotFoundError")
                /\ status = 200 =>
                      (result.kind = "return" /\ result.path.orig_path = raw)

C3_Witness ==
    /\ Done("validate_v1_path") /\ raw = <<"/", "a", "/", "a">>
    /\ status = 404 /\ result.exc = "NotFoundError"

\* Two Paths are equal: the same segments and the same directory flag.
SamePath(p, q) == segments(p) = segments(q) /\ p.is_dir = q.is_dir

\* C4 as stated: for every valid Path and every combination of the prefix
\* and suffix options, a Path built from the formatted string equals it.
C4_Original ==
    Done("reparse") => (result.kind = "return" /\ SamePath(result.path, src_path))

\* C4 (amended): the round trip holds when the leading separator is kept
\* (prefix) and the trailing one is kept (suffix) or the Path is a file or
\* the root.
C4_RoundTripWhenSeparatorsKept ==
    (/\ Done("reparse")
     /\ src_path.prefix
     /\ (src_path.suffix \/ is_file(src_path) \/ src_path.is_root)) =>
        (result.kind = "return" /\ SamePath(result.path, src_path))

C4_Witness ==
    /\ Done("reparse") /\ src_path.prefix /\ src_path.suffix
    /\ src_path.is_dir /\ ~ src_path.is_root
    /\ result.kind = "return"

\* C5 as stated: the Path built from '/' is root, a directory, not a file,
\* has zero segments, and taking its parent returns no Path.
C5_RootHasNoParent ==
    /\ (Done("WaterButlerPath") /\ raw = <<"/">>) =>
          /\ result.kind = "return"
          /\ result.path.is_root /\ result.path.is_dir
          /\ ~ is_file(result.path)
          /\ segments(result.path) = <<>>
    /\ (Done("parent") /\ src_path.is_root) => result.kind # "return"

\* C6: the parent of a valid non-root Path is a valid Path with the last
\* segment removed, the directory flag set and the same formatting options;
\* the Path it was taken from is as it was.
C6_ParentOfNonRoot ==
    (Done("parent") /\ ~ src_path.is_root) =>
        /\ result.kind = "return"
        /\ _validate_path(result.path.orig_path) = "ok"
        /\ segments(result.path) =
              SubSeq(segments(src_path), 1, Len(segments(src_path)) - 1)
        /\ result.path.is_dir
        /\ result.path.prefix = src_path.prefix
        /\ result.path.suffix = src_path.suffix
        /\ src_path = before[1]

C6_Witness ==
    /\ Done("parent") /\ Len(segments(src_path)) = 2 /\ ~ src_path.suffix
    /\ result.kind = "return" /\ Len(segments(result.path)) = 1

\* C7 as stated: validate_path returns a Path only for root, a one-segment
\* directory or a two-segment file.
C7_OnlyDocumentedShapes ==
    (Done("validate_path") /\ result.kind = "return") =>
        \/ result.path.is_root
        \/ (Len(segments(result.path)) = 1 /\ result.path.is_dir)
        \/ (Len(segments(result.path)) = 2 /\ is_file(result.path))

\* C8 as stated: can_intra_copy and can_intra_move return a boolean, never
\* fail, and issue no request.
C8_CapabilityQueriesReturn ==
    (pc = "done" /\ op \in {"can_intra_copy", "can_intra_move"}) =>
        /\ result.kind = "return"
        /\ result.bool \in BOOLEAN
        /\ calls = calls0

\* C9 as stated: when a request of metadata gets a non-success response the
\* failure is a MetadataError or NotFoundError, and when a request of
\* download does, a DownloadError or NotFoundError.
C9_DeclaredErrorKinds ==
    (pc = "done" /\ result.kind = "raise" /\ status \notin {0, 200, 206}) =>
        /\ op = "metadata" => result.exc \in {"MetadataError", "NotFoundError"}
        /\ op = "download" => result.exc \in {"DownloadError", "NotFoundError"}

\* C10 as stated: after intra_copy has completed or failed, the source and
\* the destination Path have the segments, name, directory flag and options
\* they had before the call.
C10_PathsUnchangedByIntraCopy ==
    Done("intra_copy") =>
        /\ src_path = before[1]
        /\ dest_path.parts = before[2].parts
        /\ name(dest_path) = name(before[2])
        /\ dest_path.is_dir = before[2].is_dir
        /\ dest_path.prefix = before[2].prefix
        /\ dest_path.suffix = before[2].suffix

=============================================================================
